---- MODULE Spec2Model ----
(***************************************************************************)
(* SwiftKYC front end (swiftkyc/app/static/app.js): the customer wizard,   *)
(* its camera lifecycle and its requests, as a state machine.              *)
(*                                                                         *)
(* The browser runs one handler at a time.  Every `await` ends a step: the *)
(* part of a handler before its first await is one action, and each        *)
(* continuation (a response, a granted or refused camera, a timer, a       *)
(* toBlob callback) is another, taken from the bag `pending`.              *)
(***************************************************************************)
EXTENDS Integers, Sequences, FiniteSets, Bags, TLC

(***************************************************************************)
(* Bounds of the model.                                                    *)
(***************************************************************************)
\* asynchronous operations (requests, timers, camera prompts) outstanding at once
MaxPending == 2
\* media streams the device hands out at once
MaxStreams == 2
\* sets of dismissal listeners registered at once
MaxListeners == 2

(***************************************************************************)
(* Program constants.                                                      *)
(***************************************************************************)
CREATE_ADVANCE_MS == 300
RETRY_DELAY_MS == 1200
MIN_AGE == 18
MOBILE_DIGITS == 10

Null == "null"
NoStream == 0
NoText == <<>>

Streams == 1..MaxStreams

(***************************************************************************)
(* Text: a string is a sequence of one-character strings.                  *)
(***************************************************************************)
Digits == {"0", "1", "2", "3", "4", "5", "6", "7", "8", "9"}
Whitespace == {" "}

DigitVal(c) ==
    CASE c = "0" -> 0 [] c = "1" -> 1 [] c = "2" -> 2 [] c = "3" -> 3
      [] c = "4" -> 4 [] c = "5" -> 5 [] c = "6" -> 6 [] c = "7" -> 7
      [] c = "8" -> 8 [] c = "9" -> 9

RECURSIVE TrimStart(_)
\* String.prototype.trim, leading part
TrimStart(s) ==
    IF s # <<>> /\ Head(s) \in Whitespace THEN TrimStart(Tail(s)) ELSE s

RECURSIVE TrimEnd(_)
\* String.prototype.trim, trailing part
TrimEnd(s) ==
    IF s # <<>> /\ s[Len(s)] \in Whitespace
    THEN TrimEnd(SubSeq(s, 1, Len(s) - 1))
    ELSE s

\* value.trim()
Trim(s) == TrimEnd(TrimStart(s))

\* /^\d{10}$/.test(mobile)
MobileRegexTest(s) ==
    /\ Len(s) = MOBILE_DIGITS
    /\ \A i \in 1..Len(s) : s[i] \in Digits

RECURSIVE DigitPrefix(_)
\* the longest run of decimal digits at the start of s
DigitPrefix(s) ==
    IF s # <<>> /\ Head(s) \in Digits
    THEN <<Head(s)>> \o DigitPrefix(Tail(s))
    ELSE <<>>

RECURSIVE DecimalValue(_)
\* the number a run of decimal digits denotes
DecimalValue(ds) ==
    IF ds = <<>> THEN 0
    ELSE 10 * DecimalValue(SubSeq(ds, 1, Len(ds) - 1)) + DigitVal(ds[Len(ds)])

\* parseInt(value, 10): leading white space is skipped, one sign is read, then
\* the longest run of digits; whatever follows is ignored; no digit gives NaN.
ParseInt(s) ==
    LET t == TrimStart(s)
        neg == t # <<>> /\ Head(t) = "-"
        u == IF t # <<>> /\ Head(t) \in {"-", "+"} THEN Tail(t) ELSE t
        ds == DigitPrefix(u)
    IN  IF ds = <<>>
        THEN [isNaN |-> TRUE, val |-> 0]
        ELSE [isNaN |-> FALSE,
              val |-> IF neg THEN 0 - DecimalValue(ds) ELSE DecimalValue(ds)]

(***************************************************************************)
(* State.                                                                  *)
(***************************************************************************)
VARIABLES
    \* the `state` object and localStorage['swiftkyc_session']
    sessionId, storage, name, mobile, age, documentType, documentNumber,
    lastOcrResponse, activeStream,
    \* the device: the media streams whose tracks are live
    open,
    \* the event loop: continuations waiting for their event
    pending,
    \* the document: which view #app shows and the fields of its node
    view, mainIntact, msg, form, sourceSel, sourceArea, preview, ocrResult,
    videoReady,
    \* closure variables of the rendered view: chosenFile / capturedBlob and
    \* localStream
    artifact, localStream,
    \* history: the calls of this page load that returned a success status
    done,
    \* the moderation console: #modal-session-detail (outside #app) and the
    \* filter inputs of the admin list in #app
    modal, filters,
    \* the admin list in #app: the filters of the load whose outcome
    \* #sessions-list-wrap shows, and those of the load issued last
    list,
    \* the width of #ocr-progress-bar in #app and whether the interval that
    \* animates it is set
    progress,
    \* one call of apiFetch looked at by itself: the response it is given,
    \* the requests it has sent, what it came to
    fetched

sessVars == <<sessionId, storage, name, mobile, age, documentType,
              documentNumber, lastOcrResponse>>
mediaVars == <<activeStream, open>>
domVars == <<view, mainIntact, msg, form, sourceSel, sourceArea, preview,
             ocrResult, videoReady>>
closureVars == <<artifact, localStream>>
adminVars == <<modal, filters, list>>
vars == <<sessVars, mediaVars, domVars, closureVars, pending, done, adminVars,
          progress, fetched>>

(***************************************************************************)
(* Continuations.  `att` says that the view instance the continuation      *)
(* belongs to is still the one in #app; `live` (camera prompts of the      *)
(* upload view) that the Capture/Close buttons it will wire are still the  *)
(* ones in #source-area; `ls` is the localStream of a selfie view instance *)
(* that has been replaced, as its continuation will read it.               *)
(***************************************************************************)
Op(k) ==
    [kind |-> k, att |-> TRUE, live |-> FALSE, sid |-> Null, arg |-> Null,
     file |-> Null, name |-> NoText, mobile |-> NoText, age |-> 0,
     docno |-> NoText, delay |-> 0, ls |-> NoStream]

Ops(k) == {op \in BagToSet(pending) : op.kind = k}

Room(pend) == BagCardinality(pend) < MaxPending

Settle(op) == pending (-) SetToBag({op})

\* continuations that write only into their own view's node or closure: once
\* the view is replaced they change nothing the program can observe
NodeOnly == {"blobDoc", "blobSelfie", "status", "adminList"}

\* the view instance in #app is replaced: its continuations lose their node;
\* those of a selfie instance keep its closure, whose localStream is ls
DetachOp(op, ls) ==
    [op EXCEPT !.att = FALSE,
               !.live = FALSE,
               !.ls = IF op.att /\ op.kind = "selfie" THEN ls ELSE op.ls]

Detach(pend, ls) ==
    LET kept == {op \in BagToSet(pend) : op.kind \notin NodeOnly}
    IN  BagOfAll(LAMBDA op : DetachOp(op, ls), [op \in kept |-> pend[op]])

\* #source-area is rewritten: a camera prompt still pending will wire buttons
\* that are no longer in the document
Orphan(pend) ==
    BagOfAll(LAMBDA op : IF op.kind = "acqUpload" /\ op.att
                         THEN [op EXCEPT !.live = FALSE] ELSE op, pend)

(***************************************************************************)
(* Media lifecycle.  m = [open, active]: the live streams and              *)
(* state.activeStream.                                                     *)
(***************************************************************************)
Media == [open |-> open, active |-> activeStream]

\* stream.getTracks().forEach(t => t.stop())
StopTracks(op, s) == op \ {s}

stopActiveStream(m) ==
    IF m.active # NoStream
    THEN [open |-> StopTracks(m.open, m.active), active |-> NoStream]
    ELSE m

\* renderUploadDocument.stopLocalCamera, ls the closure's localStream
stopLocalCamera(m, ls) ==
    [open |-> IF ls # NoStream THEN StopTracks(m.open, ls) ELSE m.open,
     active |-> NoStream,
     local |-> NoStream]

\* renderSelfieUpload.stopCamera, ls the closure's localStream
stopCamera(m, ls) ==
    IF ls # NoStream
    THEN [open |-> StopTracks(m.open, ls), active |-> NoStream,
          local |-> NoStream]
    ELSE [open |-> m.open, active |-> m.active, local |-> ls]

\* the handles that exist: live, or still referenced by the program
Referenced ==
    open \cup {activeStream, localStream}
         \cup {op.ls : op \in BagToSet(pending)}

FreeStreams == Streams \ Referenced

\* navigator.mediaDevices.getUserMedia resolves with a new MediaStream
NewStream == CHOOSE s \in FreeStreams : \A t \in FreeStreams : s <= t

(***************************************************************************)
(* Rendering.                                                              *)
(***************************************************************************)
\* no filter chosen: getCurrentFilters() returns {}
NoFilter == "none"

\* #modal-session-detail as the page's markup has it: hidden, nothing loaded.
\* body: what #session-detail-modal-body holds; status and actions: the
\* record rendered in it and its action bar; sid, att: the closure of
\* the renderAdminDetail call that rendered it; hide: the body's _hideTimer;
\* listeners: the sets of dismissal listeners (closeModal on the close button,
\* onKey on the document, onBackdrop on the modal) that are registered
ModalInit ==
    [shown |-> FALSE, body |-> "blank", status |-> Null, actions |-> {},
     sid |-> Null, att |-> FALSE, hide |-> FALSE, listeners |-> 0]

\* no admin list in #app, or one that has shown no outcome yet
NoList == [shown |-> "nothing", last |-> "nothing"]

\* no OCR progress node in #app
NoProgress == [bar |-> 0, timer |-> FALSE]

\* let progress = 5
PROGRESS_START == 5

\* a body: null, a string, or an object with its detail and message fields
NullBody == [kind |-> "null", detail |-> Null, message |-> Null]

\* Math.min(92, ...)
PROGRESS_CAP == 92

\* no call of apiFetch is being looked at
NoCall ==
    [stage |-> "none",
     resp |-> [net |-> FALSE, status |-> 0, ct |-> "text",
               raw |-> [kind |-> "empty", detail |-> Null, message |-> Null]],
     requests |-> 0,
     result |-> [outcome |-> "none", status |-> 0, body |-> NullBody,
                 message |-> [from |-> "none", status |-> 0]]]

BlankForm == [name |-> NoText, mobile |-> NoText, age |-> NoText]

\* what a view starts when it is rendered: startCamera(), loadStatus(),
\* loadSessions({})
ViewOps(v) ==
    CASE v = "SelfieUpload" -> SetToBag({Op("acqSelfie")})
      [] v = "Status" /\ sessionId # Null ->
            SetToBag({[Op("status") EXCEPT !.sid = sessionId]})
      [] v = "Admin" -> SetToBag({[Op("adminList") EXCEPT !.arg = NoFilter]})
      [] OTHER -> EmptyBag

ViewMsg(v) ==
    CASE v = "Status" ->
            IF sessionId # Null THEN "Loading..."
            ELSE "Failed to load status: No session id stored."
      [] v = "Admin" -> "Loading..."
      [] OTHER -> ""

\* setMain(node): a fresh clone of the view's template replaces #app's content
SetMain(v) ==
    /\ view' = v
    /\ mainIntact' = TRUE
    /\ msg' = ViewMsg(v)
    /\ form' = BlankForm
    /\ sourceSel' = IF v = "UploadDocument" THEN "file" ELSE "none"
    /\ sourceArea' = IF v = "UploadDocument" THEN "file" ELSE "none"
    /\ preview' = IF v \in {"UploadDocument", "SelfieUpload"}
                  THEN "template" ELSE "none"
    /\ ocrResult' = "none"
    /\ videoReady' = FALSE
    /\ artifact' = Null
    /\ localStream' = NoStream
    /\ list' = IF v = "Admin" THEN [NoList EXCEPT !.last = NoFilter]
               ELSE NoList
    /\ progress' = IF v = "OcrProgress" THEN [bar |-> PROGRESS_START,
                                              timer |-> TRUE]
                   ELSE NoProgress

\* the admin list instance in #app, if any, is replaced: the detail modal
\* stays, its closures keep the replaced instance and its filter inputs
DetachAdmin ==
    /\ filters' = NoFilter
    /\ modal' = [modal EXCEPT !.att = FALSE]

\* showHome, renderCreateSession, renderSelectDocument, renderEnterDocNumber,
\* renderUploadDocument, renderSelfieUpload, renderStatusPage, renderAdminList:
\* stopActiveStream(), setMain(node), then what the view starts.  pend, m and
\* ls are the continuations, the media and the closure's localStream as the
\* caller leaves them.
Render(v, pend, m, ls) ==
    LET after == Detach(pend, ls) (+) ViewOps(v)
        m2 == stopActiveStream(m)
    IN  /\ BagCardinality(after) <= MaxPending
        /\ SetMain(v)
        /\ DetachAdmin
        /\ UNCHANGED fetched
        /\ open' = m2.open
        /\ activeStream' = m2.active
        /\ pending' = after

(***************************************************************************)
(* Responses.  net: fetch resolved; ok: res.ok; ct: the declared content   *)
(* type; kind: what the body text is.                                      *)
(***************************************************************************)
Shapes ==
    {[ct |-> "json", kind |-> "obj"], [ct |-> "json", kind |-> "null"],
     [ct |-> "json", kind |-> "garbage"], [ct |-> "text", kind |-> "obj"],
     [ct |-> "text", kind |-> "null"], [ct |-> "text", kind |-> "garbage"],
     [ct |-> "text", kind |-> "empty"]}

\* fetch rejected, or a response with a status and a body
Http ==
    {[net |-> FALSE, ok |-> FALSE, ct |-> "text", kind |-> "empty"]}
        \cup {[net |-> TRUE, ok |-> k, ct |-> sh.ct, kind |-> sh.kind] :
                 k \in BOOLEAN, sh \in Shapes}

\* the fields a body carries: those of an object, none otherwise
FieldsOf(h, objs, none) == IF h.net /\ h.kind = "obj" THEN objs ELSE {none}

\* apiFetch: threw, or the class of the body it returns
ApiFetch(resp) ==
    LET parseThrew == resp.ct = "json" /\ resp.kind \in {"garbage", "empty"}
        body == CASE resp.kind = "obj" -> "obj"
                  [] resp.kind = "garbage" -> "text"
                  [] OTHER -> "null"
    IN  [threw |-> ~resp.net \/ parseThrew \/ ~resp.ok, body |-> body]

\* a || b || c on strings, Null standing for every falsy value
Or2(a, b) == IF a # Null THEN a ELSE b
Or3(a, b, c) == Or2(a, Or2(b, c))

SessionIds == {"S1"}

\* the body names the session in at most one of the three fields
CreateFields ==
    {f \in [session_id : SessionIds \cup {Null},
            sessionId : SessionIds \cup {Null},
            id : SessionIds \cup {Null}] :
        Cardinality({k \in {"session_id", "sessionId", "id"} :
                        f[k] # Null}) <= 1}

CreateResponses ==
    UNION {{[net |-> h.net, ok |-> h.ok, ct |-> h.ct, kind |-> h.kind,
             session_id |-> f.session_id, sessionId |-> f.sessionId,
             id |-> f.id] :
               f \in FieldsOf(h, CreateFields,
                              [session_id |-> Null, sessionId |-> Null,
                               id |-> Null])} : h \in Http}

\* the call returned a success status
HttpSuccess(resp) == resp.net /\ resp.ok

Init ==
    /\ storage = Null
    /\ sessionId = Null
    /\ name = NoText /\ mobile = NoText /\ age = 0
    /\ documentType = Null /\ documentNumber = NoText
    /\ lastOcrResponse = Null
    /\ activeStream = NoStream
    /\ open = {}
    /\ pending = EmptyBag
    /\ view = "Home"
    /\ mainIntact = TRUE
    /\ msg = ""
    /\ form = BlankForm
    /\ sourceSel = "none"
    /\ sourceArea = "none"
    /\ preview = "none"
    /\ ocrResult = "none"
    /\ modal = ModalInit
    /\ filters = NoFilter
    /\ list = NoList
    /\ progress = NoProgress
    /\ fetched = NoCall
    /\ videoReady = FALSE
    /\ artifact = Null
    /\ localStream = NoStream
    /\ done = {}

(***************************************************************************)
(* Navigation.                                                             *)
(***************************************************************************)
\* #nav-home, [data-action="cancel-to-home"], #to-home
showHome ==
    /\ Render("Home", pending, Media, localStream)
    /\ UNCHANGED <<sessVars, done>>

\* #nav-admin, #open-admin
renderAdminList ==
    /\ Render("Admin", pending, Media, localStream)
    /\ UNCHANGED <<sessVars, done>>

\* [data-action="start-kyc"]
renderCreateSession ==
    /\ view = "Home"
    /\ Render("CreateSession", pending, Media, localStream)
    /\ UNCHANGED <<sessVars, done>>

(***************************************************************************)
(* Create session.                                                         *)
(***************************************************************************)
\* the user edits #i-name, #i-mobile, #i-age
TypeForm(f) ==
    /\ view = "CreateSession"
    /\ form # f
    /\ form' = f
    /\ UNCHANGED <<sessVars, mediaVars, closureVars, pending, done, view,
                   mainIntact, msg, sourceSel, sourceArea, preview, ocrResult,
                   videoReady>>
    /\ UNCHANGED <<adminVars, progress, fetched>>

\* the two local checks of the submit handler
NameMobileOk(f) == Trim(f.name) # NoText /\ MobileRegexTest(Trim(f.mobile))
AgeOk(f) == ~ParseInt(f.age).isNaN /\ ~(ParseInt(f.age).val < MIN_AGE)

\* #form-create-session submit, up to the await
SubmitCreateSession ==
    /\ view = "CreateSession"
    /\ IF ~NameMobileOk(form)
       THEN /\ msg' = "Enter a valid name and 10-digit mobile."
            /\ UNCHANGED pending
       ELSE IF ~AgeOk(form)
       THEN /\ msg' = "You must be 18 years or older."
            /\ UNCHANGED pending
       ELSE /\ Room(pending)
            /\ msg' = "Creating session..."
            /\ pending' = pending (+) SetToBag({
                   [Op("create") EXCEPT !.name = Trim(form.name),
                                        !.mobile = Trim(form.mobile),
                                        !.age = ParseInt(form.age).val]})
    /\ UNCHANGED <<sessVars, mediaVars, closureVars, done, view, mainIntact,
                   form, sourceSel, sourceArea, preview, ocrResult, videoReady>>
    /\ UNCHANGED <<adminVars, progress, fetched>>

SidOf_IdOnly(resp) == resp.id

\* body.session_id || body.sessionId || body.id
SidOf(resp) == Or3(resp.session_id, resp.sessionId, resp.id)

\* variant: the body is not asked to name a session
CreateOk_NoSidCheck(resp) ==
    /\ ~ApiFetch(resp).threw
    /\ ApiFetch(resp).body = "obj"

\* the try block completes: apiFetch returned an object and it names a session
CreateOk(resp) ==
    /\ ~ApiFetch(resp).threw
    /\ ApiFetch(resp).body = "obj"
    /\ SidOf(resp) # Null

\* the submit handler after the await
CreateResolve(op, resp) ==
    /\ done' = IF HttpSuccess(resp) THEN done \cup {"create"} ELSE done
    /\ IF CreateOk(resp)
       THEN /\ sessionId' = SidOf(resp)
            /\ name' = op.name /\ mobile' = op.mobile /\ age' = op.age
            /\ storage' = SidOf(resp)
            /\ msg' = IF op.att THEN "Session created - continuing..." ELSE msg
            /\ pending' = Settle(op) (+) SetToBag({
                   [Op("createTimer") EXCEPT !.att = FALSE,
                                             !.delay = CREATE_ADVANCE_MS]})
       ELSE /\ msg' = IF op.att THEN "Create session failed" ELSE msg
            /\ pending' = Settle(op)
            /\ UNCHANGED <<sessionId, name, mobile, age, storage>>
    /\ UNCHANGED <<documentType, documentNumber, lastOcrResponse, mediaVars,
                   closureVars, view, mainIntact, form, sourceSel, sourceArea,
                   preview, ocrResult, videoReady>>
    /\ UNCHANGED <<adminVars, progress, fetched>>

\* the submit handler after the await when localStorage.setItem throws (the
\* quota is used up, or storage is denied): state.sessionId and the profile
\* fields are already written, the catch block shows the failure
CreateStoreFails(op, resp) ==
    /\ CreateOk(resp)
    /\ done' = done \cup {"create"}
    /\ sessionId' = SidOf(resp)
    /\ name' = op.name /\ mobile' = op.mobile /\ age' = op.age
    /\ msg' = IF op.att THEN "Create session failed" ELSE msg
    /\ pending' = Settle(op)
    /\ UNCHANGED <<storage, documentType, documentNumber, lastOcrResponse,
                   mediaVars, closureVars, view, mainIntact, form, sourceSel,
                   sourceArea, preview, ocrResult, videoReady>>
    /\ UNCHANGED <<adminVars, progress, fetched>>

\* setTimeout(() => renderSelectDocument(), 300) fires
CreateTimerFire(op) ==
    /\ Render("SelectDocument", Settle(op), Media, localStream)
    /\ UNCHANGED <<sessVars, done>>

(***************************************************************************)
(* Select document.                                                        *)
(***************************************************************************)
DocTypes == {"PAN", "AADHAAR"}

SelectResponses(d) ==
    UNION {{[net |-> h.net, ok |-> h.ok, ct |-> h.ct, kind |-> h.kind,
             doc_type |-> e] : e \in FieldsOf(h, {Null, d}, Null)} :
           h \in Http}

\* .doc-btn click, up to the await.  showMessage(node, ...) writes the text
\* into the view's root node, which replaces the buttons.
ClickDocButton(d) ==
    /\ view = "SelectDocument"
    /\ mainIntact
    /\ IF sessionId = Null
       THEN /\ msg' = "Session missing, start again."
            /\ mainIntact' = FALSE
            /\ UNCHANGED pending
       ELSE /\ Room(pending)
            /\ pending' = pending (+) SetToBag({
                   [Op("select") EXCEPT !.sid = sessionId, !.arg = d]})
            /\ UNCHANGED <<msg, mainIntact>>
    /\ UNCHANGED <<sessVars, mediaVars, closureVars, done, view, form,
                   sourceSel, sourceArea, preview, ocrResult, videoReady>>
    /\ UNCHANGED <<adminVars, progress, fetched>>

\* variant: a thrown apiFetch is not told from a returned one
CallOk_NoCatch(resp) == TRUE

\* apiFetch returned and the response can be read (resp.doc_type of null throws)
CallOk(resp) == ~ApiFetch(resp).threw /\ ApiFetch(resp).body # "null"

\* resp.doc_type || docType
Echoed(resp, field, sent) ==
    IF ApiFetch(resp).body = "obj" THEN Or2(field, sent) ELSE sent

\* resp.doc_number || docno
EchoedText(resp, field, sent) ==
    IF ApiFetch(resp).body = "obj" /\ field # NoText THEN field ELSE sent

\* the click handler after the await
SelectResolve(op, resp) ==
    /\ done' = IF HttpSuccess(resp) THEN done \cup {"select"} ELSE done
    /\ IF CallOk(resp)
       THEN /\ documentType' = Echoed(resp, resp.doc_type, op.arg)
            /\ Render("EnterDocNumber", Settle(op), Media, localStream)
       ELSE /\ msg' = IF op.att THEN "Select document failed" ELSE msg
            /\ mainIntact' = IF op.att THEN FALSE ELSE mainIntact
            /\ pending' = Settle(op)
            /\ UNCHANGED <<documentType, mediaVars, closureVars, view, form,
                           sourceSel, sourceArea, preview, ocrResult,
                           videoReady, adminVars, progress, fetched>>
    /\ UNCHANGED <<sessionId, storage, name, mobile, age, documentNumber,
                   lastOcrResponse>>

(***************************************************************************)
(* Enter document number.                                                  *)
(***************************************************************************)
DocNumberInputs == {<<>>, <<" ">>, <<"D", "1">>}

DocNumberResponses(d) ==
    UNION {{[net |-> h.net, ok |-> h.ok, ct |-> h.ct, kind |-> h.kind,
             doc_number |-> e] : e \in FieldsOf(h, {NoText, d}, NoText)} :
           h \in Http}

\* #form-doc-number submit with #i-docno holding s, up to the await
SubmitDocNumber(s) ==
    /\ view = "EnterDocNumber"
    /\ IF Trim(s) = NoText
       THEN /\ msg' = "Enter the document number."
            /\ UNCHANGED pending
       ELSE IF sessionId = Null
       THEN /\ msg' = "Session missing."
            /\ UNCHANGED pending
       ELSE /\ Room(pending)
            /\ pending' = pending (+) SetToBag({
                   [Op("enterDoc") EXCEPT !.sid = sessionId, !.docno = Trim(s)]})
            /\ UNCHANGED msg
    /\ UNCHANGED <<sessVars, mediaVars, closureVars, done, view, mainIntact,
                   form, sourceSel, sourceArea, preview, ocrResult, videoReady>>
    /\ UNCHANGED <<adminVars, progress, fetched>>

\* the submit handler after the await
EnterDocResolve(op, resp) ==
    /\ done' = IF HttpSuccess(resp) THEN done \cup {"enterDoc"} ELSE done
    /\ IF CallOk(resp)
       THEN /\ documentNumber' = EchoedText(resp, resp.doc_number, op.docno)
            /\ Render("UploadDocument", Settle(op), Media, localStream)
       ELSE /\ msg' = IF op.att THEN "Saving document number failed" ELSE msg
            /\ pending' = Settle(op)
            /\ UNCHANGED <<documentNumber, mediaVars, closureVars, view,
                           mainIntact, form, sourceSel, sourceArea, preview,
                           ocrResult, videoReady, adminVars, progress, fetched>>
    /\ UNCHANGED <<sessionId, storage, name, mobile, age, documentType,
                   lastOcrResponse>>

BackToSelect_ClearsType ==
    /\ view = "EnterDocNumber"
    /\ Render("SelectDocument", pending, Media, localStream)
    /\ documentType' = Null
    /\ UNCHANGED <<sessionId, storage, name, mobile, age, documentNumber,
                   lastOcrResponse, done>>

\* [data-action="back-to-select"]
BackToSelect ==
    /\ view = "EnterDocNumber"
    /\ Render("SelectDocument", pending, Media, localStream)
    /\ UNCHANGED <<sessVars, done>>

(***************************************************************************)
(* Upload document.                                                        *)
(***************************************************************************)
\* #file-input change with a file chosen
PickFile ==
    /\ view = "UploadDocument"
    /\ sourceArea = "file"
    /\ artifact' = "file"
    /\ preview' = "image"
    /\ UNCHANGED <<sessVars, mediaVars, pending, done, view, mainIntact, msg,
                   form, sourceSel, sourceArea, ocrResult, videoReady,
                   localStream>>
    /\ UNCHANGED <<adminVars, progress, fetched>>

\* #source-select change to v: chosenFile = null, resetPreview(), then
\* setupFileInput() or setupCameraCapture() up to its await
SourceChange(v) ==
    /\ view = "UploadDocument"
    /\ v \in {"file", "camera"}
    /\ v # sourceSel
    /\ sourceSel' = v
    /\ artifact' = Null
    /\ preview' = "reset"
    /\ IF v = "file"
       THEN LET m == stopLocalCamera(Media, localStream)
            IN  /\ open' = m.open
                /\ activeStream' = m.active
                /\ localStream' = m.local
                /\ sourceArea' = "file"
                /\ pending' = Orphan(pending)
       ELSE /\ Room(pending)
            /\ sourceArea' = "camera"
            /\ pending' = Orphan(pending) (+) SetToBag({
                   [Op("acqUpload") EXCEPT !.live = TRUE]})
            /\ UNCHANGED <<mediaVars, localStream>>
    /\ UNCHANGED <<sessVars, done, view, mainIntact, msg, form, ocrResult,
                   videoReady>>
    /\ UNCHANGED <<adminVars, progress, fetched>>

\* what the camera prompt and video.play() can come to
AcqOutcomes == {"granted", "playFailed", "denied"}

\* setupCameraCapture after getUserMedia and video.play()
AcqUploadResolve(op, outcome) ==
    /\ IF outcome = "denied"
       THEN UNCHANGED <<mediaVars, localStream>>
       ELSE /\ FreeStreams # {}
            /\ open' = open \cup {NewStream}
            /\ activeStream' = NewStream
            /\ localStream' = IF op.att THEN NewStream ELSE localStream
    /\ msg' = IF op.att /\ outcome # "granted"
              THEN "Camera error" ELSE msg
    /\ sourceArea' = IF op.att /\ op.live /\ outcome = "granted"
                     THEN "cameraLive" ELSE sourceArea
    /\ pending' = Settle(op)
    /\ UNCHANGED <<sessVars, done, view, mainIntact, form, sourceSel, preview,
                   ocrResult, videoReady, artifact>>
    /\ UNCHANGED <<adminVars, progress, fetched>>

\* #doc-capture click: the frame is drawn, canvas.toBlob will call back
CaptureDoc ==
    /\ view = "UploadDocument"
    /\ sourceArea = "cameraLive"
    /\ Room(pending)
    /\ pending' = pending (+) SetToBag({Op("blobDoc")})
    /\ UNCHANGED <<sessVars, mediaVars, closureVars, done, domVars>>
    /\ UNCHANGED <<adminVars, progress, fetched>>

\* the toBlob callback: chosenFile = blob; setPreview(blob)
BlobDocReady(op) ==
    /\ artifact' = IF op.att THEN "frame" ELSE artifact
    /\ preview' = IF op.att THEN "image" ELSE preview
    /\ pending' = Settle(op)
    /\ UNCHANGED <<sessVars, mediaVars, done, view, mainIntact, msg, form,
                   sourceSel, sourceArea, ocrResult, videoReady, localStream>>
    /\ UNCHANGED <<adminVars, progress, fetched>>

\* #doc-close click: stopLocalCamera(); setupFileInput(); resetPreview()
CloseCamera ==
    /\ view = "UploadDocument"
    /\ sourceArea = "cameraLive"
    /\ LET m == stopLocalCamera(Media, localStream)
           m2 == stopLocalCamera([open |-> m.open, active |-> m.active],
                                 m.local)
       IN  /\ open' = m2.open
           /\ activeStream' = m2.active
           /\ localStream' = m2.local
    /\ sourceArea' = "file"
    /\ preview' = "reset"
    /\ pending' = Orphan(pending)
    /\ UNCHANGED <<sessVars, done, view, mainIntact, msg, form, sourceSel,
                   ocrResult, videoReady, artifact>>
    /\ UNCHANGED <<adminVars, progress, fetched>>

\* #cancel-upload-doc click: stopLocalCamera(); showHome()
CancelUpload ==
    /\ view = "UploadDocument"
    /\ LET m == stopLocalCamera(Media, localStream)
       IN  Render("Home", pending, [open |-> m.open, active |-> m.active],
                  m.local)
    /\ UNCHANGED <<sessVars, done>>

\* variant: the chosen file is not looked at
UploadBlocked_NoFileCheck ==
    IF sessionId = Null THEN "Session missing - start again." ELSE ""

\* variant: an earlier answer of the server blocks the next attempt
UploadBlocked_AfterFailure ==
    IF artifact = Null THEN "Please choose or capture a file first."
    ELSE IF sessionId = Null THEN "Session missing - start again."
    ELSE IF lastOcrResponse # Null THEN "Attempt limit reached."
    ELSE ""

\* the two checks the upload handler starts with: the message it shows, or ""
UploadBlocked ==
    IF artifact = Null THEN "Please choose or capture a file first."
    ELSE IF sessionId = Null THEN "Session missing - start again."
    ELSE ""

\* #upload-doc-btn click, up to the await: the OCR progress node replaces the
\* view (setMain alone, no render function), then the file is posted
ClickUpload ==
    /\ view = "UploadDocument"
    /\ IF UploadBlocked # ""
       THEN /\ msg' = UploadBlocked
            /\ UNCHANGED <<pending, view, mainIntact, form, sourceSel,
                           sourceArea, preview, ocrResult, videoReady,
                           closureVars, adminVars, progress, fetched>>
       ELSE /\ Room(pending)
            /\ SetMain("OcrProgress")
            /\ DetachAdmin
            /\ UNCHANGED fetched
            /\ pending' = Detach(pending, localStream) (+) SetToBag({
                   [Op("validate") EXCEPT !.sid = sessionId,
                                          !.file = artifact]})
    /\ UNCHANGED <<sessVars, mediaVars, done>>

ValidateFields ==
    {[next_step |-> a, nextStep |-> b] :
        a \in {Null, "SELFIE", "SCAN_DOC"}, b \in {Null, "SELFIE"}}

ValidateResponses ==
    UNION {{[net |-> h.net, ok |-> h.ok, ct |-> h.ct, kind |-> h.kind,
             next_step |-> f.next_step, nextStep |-> f.nextStep] :
               f \in FieldsOf(h, ValidateFields,
                              [next_step |-> Null, nextStep |-> Null])} :
           h \in Http}

\* the body as the upload handler reads it: res.json(), or res.text() and
\* JSON.parse with {} for no text and {next_step: 'SCAN_DOC'} for bad text
ValidateData(resp) ==
    LET obj == [kind |-> "obj", next_step |-> resp.next_step,
                nextStep |-> resp.nextStep]
        nul == [kind |-> "null", next_step |-> Null, nextStep |-> Null]
        empty == [kind |-> "obj", next_step |-> Null, nextStep |-> Null]
        scan == [kind |-> "obj", next_step |-> "SCAN_DOC", nextStep |-> Null]
    IN  IF resp.ct = "json"
        THEN [threw |-> resp.kind \in {"garbage", "empty"},
              data |-> IF resp.kind = "obj" THEN obj ELSE nul]
        ELSE [threw |-> FALSE,
              data |-> CASE resp.kind = "obj" -> obj
                         [] resp.kind = "null" -> nul
                         [] resp.kind = "empty" -> empty
                         [] OTHER -> scan]

\* variant: reads the camel-case field alone
NextStepOf_CamelOnly(data) == data.nextStep

\* data.next_step || data.nextStep
NextStepOf(data) == Or2(data.next_step, data.nextStep)

\* variant: the directive is read before the status is looked at
ValidateBranch_DirectiveFirst(resp) ==
    LET parsed == ValidateData(resp)
    IN  IF ~resp.net \/ parsed.threw \/ parsed.data.kind = "null"
        THEN "caught"
        ELSE IF NextStepOf(parsed.data) = "SELFIE" THEN "selfie"
        ELSE IF ~resp.ok THEN "failed"
        ELSE "mismatch"

\* which branch of the upload handler a response takes
ValidateBranch(resp) ==
    LET parsed == ValidateData(resp)
    IN  IF ~resp.net \/ parsed.threw \/ parsed.data.kind = "null"
        THEN "caught"
        ELSE IF ~resp.ok THEN "failed"
        ELSE IF NextStepOf(parsed.data) = "SELFIE" THEN "selfie"
        ELSE "mismatch"

\* the timer a branch sets: setTimeout(() => renderUploadDocument(), 1200)
RetryTimers(branch) ==
    IF branch = "selfie" THEN EmptyBag
    ELSE SetToBag({[Op("retryTimer") EXCEPT !.att = FALSE,
                                            !.delay = RETRY_DELAY_MS]})

\* what a branch writes into #ocr-result
OcrResultOf(branch) ==
    CASE branch = "selfie" -> "Proceed"
      [] branch = "failed" -> "OCR failed"
      [] branch = "mismatch" -> "OCR did not match"
      [] OTHER -> "Upload/OCR failed"

\* the server's directive, as the body states it
SaysSelfie(resp) ==
    /\ resp.kind = "obj"
    /\ \/ resp.next_step = "SELFIE"
       \/ resp.next_step = Null /\ resp.nextStep = "SELFIE"

\* the upload handler after the await
ValidateResolve(op, resp) ==
    LET branch == ValidateBranch(resp)
    IN  /\ done' = IF HttpSuccess(resp) /\ SaysSelfie(resp)
                   THEN done \cup {"validate"} ELSE done
        /\ lastOcrResponse' = IF branch = "caught" THEN lastOcrResponse
                              ELSE "data"
        /\ ocrResult' = IF op.att THEN OcrResultOf(branch) ELSE ocrResult
        /\ pending' = Settle(op) (+) RetryTimers(branch)
        /\ UNCHANGED <<sessionId, storage, name, mobile, age, documentType,
                       documentNumber, mediaVars, closureVars, view,
                       mainIntact, msg, form, sourceSel, sourceArea, preview,
                       videoReady>>
        /\ progress' = IF op.att THEN [bar |-> 100, timer |-> FALSE]
                       ELSE progress
        /\ UNCHANGED <<adminVars, fetched>>

\* a retry timer fires: renderUploadDocument()
RetryTimerFire(op) ==
    /\ Render("UploadDocument", Settle(op), Media, localStream)
    /\ UNCHANGED <<sessVars, done>>

\* 'Proceed to Selfie' click
ProceedToSelfie ==
    /\ view = "OcrProgress"
    /\ ocrResult = "Proceed"
    /\ Render("SelfieUpload", pending, Media, localStream)
    /\ UNCHANGED <<sessVars, done>>

\* 'Retry Upload' click
RetryUpload ==
    /\ view = "OcrProgress"
    /\ ocrResult = "Proceed"
    /\ Render("UploadDocument", pending, Media, localStream)
    /\ UNCHANGED <<sessVars, done>>

(***************************************************************************)
(* Selfie.                                                                 *)
(***************************************************************************)
\* startCamera after getUserMedia and video.play()
AcqSelfieResolve(op, outcome) ==
    /\ IF outcome = "denied"
       THEN UNCHANGED <<mediaVars, localStream>>
       ELSE /\ FreeStreams # {}
            /\ open' = open \cup {NewStream}
            /\ activeStream' = NewStream
            /\ localStream' = IF op.att THEN NewStream ELSE localStream
    /\ msg' = IF op.att /\ outcome # "granted" THEN "Camera error" ELSE msg
    /\ videoReady' = IF op.att /\ outcome = "granted" THEN TRUE ELSE videoReady
    /\ pending' = Settle(op)
    /\ UNCHANGED <<sessVars, done, view, mainIntact, form, sourceSel,
                   sourceArea, preview, ocrResult, artifact>>
    /\ UNCHANGED <<adminVars, progress, fetched>>

\* #capture-selfie click
CaptureSelfie ==
    /\ view = "SelfieUpload"
    /\ IF ~videoReady
       THEN /\ msg' = "Camera not ready - try again."
            /\ UNCHANGED pending
       ELSE /\ Room(pending)
            /\ pending' = pending (+) SetToBag({Op("blobSelfie")})
            /\ UNCHANGED msg
    /\ UNCHANGED <<sessVars, mediaVars, closureVars, done, view, mainIntact,
                   form, sourceSel, sourceArea, preview, ocrResult, videoReady>>
    /\ UNCHANGED <<adminVars, progress, fetched>>

\* the toBlob callback: capturedBlob = blob and the preview shows it
BlobSelfieReady(op) ==
    /\ artifact' = IF op.att THEN "frame" ELSE artifact
    /\ preview' = IF op.att THEN "image" ELSE preview
    /\ pending' = Settle(op)
    /\ UNCHANGED <<sessVars, mediaVars, done, view, mainIntact, msg, form,
                   sourceSel, sourceArea, ocrResult, videoReady, localStream>>
    /\ UNCHANGED <<adminVars, progress, fetched>>

\* the two checks the selfie upload handler starts with
SelfieBlocked ==
    IF artifact = Null THEN "Capture a selfie first."
    ELSE IF sessionId = Null THEN "Session missing."
    ELSE ""

\* #upload-selfie click, up to the await
ClickUploadSelfie ==
    /\ view = "SelfieUpload"
    /\ IF SelfieBlocked # ""
       THEN /\ msg' = SelfieBlocked
            /\ UNCHANGED pending
       ELSE /\ Room(pending)
            /\ msg' = "Uploading selfie..."
            /\ pending' = pending (+) SetToBag({
                   [Op("selfie") EXCEPT !.sid = sessionId, !.file = artifact]})
    /\ UNCHANGED <<sessVars, mediaVars, closureVars, done, view, mainIntact,
                   form, sourceSel, sourceArea, preview, ocrResult, videoReady>>
    /\ UNCHANGED <<adminVars, progress, fetched>>

\* the handler reads res.ok, and the body only of a failure
SelfieResponses == Http

\* stopCamera() of a replaced selfie instance clears the localStream its other
\* continuations read
ClearLs(pend, s) ==
    BagOfAll(LAMBDA op : IF op.kind = "selfie" /\ ~op.att /\ op.ls = s
                         THEN [op EXCEPT !.ls = NoStream] ELSE op, pend)

SelfieOk_NeedsObject(resp) == resp.net /\ resp.ok /\ resp.kind = "obj"

\* fetch resolved and res.ok holds: the body is not read
SelfieOk(resp) == resp.net /\ resp.ok

\* the upload handler after the await: stopCamera(); renderStatusPage()
SelfieResolve(op, resp) ==
    /\ done' = IF SelfieOk(resp) THEN done \cup {"selfie"} ELSE done
    /\ IF SelfieOk(resp)
       THEN LET m == stopCamera(Media, IF op.att THEN localStream ELSE op.ls)
                rest == IF op.att \/ op.ls = NoStream THEN Settle(op)
                        ELSE ClearLs(Settle(op), op.ls)
            IN  Render("Status", rest, [open |-> m.open, active |-> m.active],
                       IF op.att THEN m.local ELSE localStream)
       ELSE /\ msg' = IF op.att THEN "Selfie upload failed" ELSE msg
            /\ pending' = Settle(op)
            /\ UNCHANGED <<mediaVars, closureVars, view, mainIntact, form,
                           sourceSel, sourceArea, preview, ocrResult,
                           videoReady, adminVars, progress, fetched>>
    /\ UNCHANGED sessVars

\* #cancel-selfie click: stopCamera(); renderUploadDocument()
CancelSelfie ==
    /\ view = "SelfieUpload"
    /\ LET m == stopCamera(Media, localStream)
       IN  Render("UploadDocument", pending,
                  [open |-> m.open, active |-> m.active], m.local)
    /\ UNCHANGED <<sessVars, done>>

(***************************************************************************)
(* Status and admin list.                                                  *)
(***************************************************************************)
PlainResponses ==
    UNION {{[net |-> h.net, ok |-> h.ok, ct |-> h.ct, kind |-> h.kind,
             rows |-> r] : r \in FieldsOf(h, BOOLEAN, FALSE)} : h \in Http}

\* #refresh-status click: loadStatus() up to the await
RefreshStatus ==
    /\ view = "Status"
    /\ IF sessionId = Null
       THEN /\ msg' = "Failed to load status: No session id stored."
            /\ UNCHANGED pending
       ELSE /\ Room(pending)
            /\ msg' = "Loading..."
            /\ pending' = pending (+) SetToBag({
                   [Op("status") EXCEPT !.sid = sessionId]})
    /\ UNCHANGED <<sessVars, mediaVars, closureVars, done, view, mainIntact,
                   form, sourceSel, sourceArea, preview, ocrResult, videoReady>>
    /\ UNCHANGED <<adminVars, progress, fetched>>

\* loadStatus after the await (data.session_id of null throws)
StatusResolve(op, resp) ==
    /\ msg' = IF ~op.att THEN msg
              ELSE IF CallOk(resp) THEN "Status loaded"
              ELSE "Failed to load status"
    /\ pending' = Settle(op)
    /\ UNCHANGED <<sessVars, mediaVars, closureVars, done, view, mainIntact,
                   form, sourceSel, sourceArea, preview, ocrResult, videoReady>>
    /\ UNCHANGED <<adminVars, progress, fetched>>

\* loadSessions after the await
AdminListResolve(op, resp) ==
    /\ msg' = IF ~op.att THEN msg
              ELSE IF ApiFetch(resp).threw THEN "Failed to load sessions"
              ELSE IF ApiFetch(resp).body = "obj" /\ resp.rows THEN "Table"
              ELSE "No sessions"
    /\ list' = IF op.att THEN [list EXCEPT !.shown = op.arg] ELSE list
    /\ pending' = Settle(op)
    /\ UNCHANGED <<sessVars, mediaVars, closureVars, done, view, mainIntact,
                   form, sourceSel, sourceArea, preview, ocrResult, videoReady>>
    /\ UNCHANGED <<modal, filters, progress, fetched>>

(***************************************************************************)
(* The moderation console: the filter bar of the list, and the detail      *)
(* modal with its action bar.  The modal lies outside #app: rendering a    *)
(* view leaves it as it is.                                                *)
(***************************************************************************)
\* what the filter inputs can hold
FilterChoices == {NoFilter, "byStatus"}

\* the session ids of the rows of a table
RecordIds == {"R1", "R2"}

\* data.status of a record
Statuses == {"APPROVED", "REJECTED", "IN_PROGRESS", "KYC_CHECK", "EXPIRED"}

\* the delay of the detail reload doAction schedules
DETAIL_RELOAD_MS == 400

DetailResponses ==
    UNION {{[net |-> h.net, ok |-> h.ok, ct |-> h.ct, kind |-> h.kind,
             status |-> st] : st \in FieldsOf(h, Statuses \cup {Null}, Null)} :
              h \in Http}

ActionSet_ApprovedBoth(status) ==
    IF status = "REJECTED" THEN {"approve"} ELSE {"approve", "reject"}

\* the children of the action bar, as the if / else-if chain appends them
ActionSet(status) ==
    IF status = "APPROVED" THEN {"badge", "reject"}
    ELSE IF status = "REJECTED" THEN {"approve"}
    ELSE IF status = "IN_PROGRESS" \/ status = "KYC_CHECK"
         THEN {"approve", "reject"}
    ELSE {"approve", "reject"}

\* the body holds no record: no action bar, no closure behind it
NoRecord(m, b) ==
    [m EXCEPT !.body = b, !.status = Null, !.actions = {}, !.sid = Null,
              !.att = FALSE]

\* the user edits the filter inputs
SetFilter(f) ==
    /\ view = "Admin"
    /\ f # filters
    /\ filters' = f
    /\ UNCHANGED <<sessVars, mediaVars, domVars, closureVars, pending, done,
                   modal, list>>
    /\ UNCHANGED <<progress, fetched>>

\* loadSessions(f) up to the await
loadSessions(f) ==
    /\ Room(pending)
    /\ msg' = "Loading..."
    /\ pending' = pending (+) SetToBag({[Op("adminList") EXCEPT !.arg = f]})
    /\ list' = [list EXCEPT !.last = f]
    /\ UNCHANGED <<sessVars, mediaVars, closureVars, done, view, mainIntact,
                   form, sourceSel, sourceArea, preview, ocrResult, videoReady,
                   modal>>
    /\ UNCHANGED <<progress, fetched>>

\* #f-apply click
ApplyFilters ==
    /\ view = "Admin"
    /\ loadSessions(filters)
    /\ UNCHANGED filters

\* #f-reset click
ResetFilters ==
    /\ view = "Admin"
    /\ filters' = NoFilter
    /\ loadSessions(NoFilter)

\* renderAdminDetail(sid) up to the await, from a closure whose list instance
\* is (att) or is not in #app
renderAdminDetail(sid, att, pend) ==
    /\ BagCardinality(pend) < MaxPending
    /\ modal.listeners < MaxListeners
    /\ modal' = [NoRecord(modal, "loading") EXCEPT !.shown = TRUE,
                                                   !.listeners = @ + 1]
    /\ pending' = pend (+) SetToBag({[Op("detail") EXCEPT !.sid = sid,
                                                          !.att = att]})

\* a row of the table is clicked
OpenDetail(r) ==
    /\ view = "Admin"
    /\ msg = "Table"
    /\ renderAdminDetail(r, TRUE, pending)
    /\ UNCHANGED <<sessVars, mediaVars, domVars, closureVars, done, filters,
                   list>>
    /\ UNCHANGED <<progress, fetched>>

\* renderAdminDetail after the await (data.documents of null throws)
DetailResolve(op, resp) ==
    LET a == ApiFetch(resp)
        status == IF a.body = "obj" THEN resp.status ELSE Null
    IN  /\ modal' = IF a.threw \/ a.body = "null"
                    THEN NoRecord(modal, "failed")
                    ELSE [modal EXCEPT !.body = "record",
                                       !.status = status,
                                       !.actions = ActionSet(status),
                                       !.sid = op.sid,
                                       !.att = op.att]
        /\ pending' = Settle(op)
        /\ UNCHANGED <<sessVars, mediaVars, domVars, closureVars, done,
                       filters, list>>
        /\ UNCHANGED <<progress, fetched>>

\* #session-detail-close click, Escape, backdrop click: the event reaches the
\* listener of every registered set, and each closeModal takes its own three
\* listeners off
closeModal ==
    /\ modal.shown
    /\ modal' = [modal EXCEPT !.shown = FALSE, !.listeners = 0]
    /\ UNCHANGED <<sessVars, mediaVars, domVars, closureVars, pending, done,
                   filters, list>>
    /\ UNCHANGED <<progress, fetched>>

\* Approve or Reject click: doAction up to the await
ClickAction(verb) ==
    /\ modal.shown
    /\ verb \in modal.actions \ {"badge"}
    /\ Room(pending)
    /\ pending' = pending (+) SetToBag({[Op("action") EXCEPT !.sid = modal.sid,
                                                            !.arg = verb,
                                                            !.att = modal.att]})
    /\ UNCHANGED <<sessVars, mediaVars, domVars, closureVars, done, adminVars, progress, fetched>>

\* doAction after the await: showMessage(body, ...) replaces the body's
\* content and arms its hide timer; on success the list of the closure is
\* loaded again and the detail reload is scheduled.  The list of a replaced
\* instance is loaded into a node that is no longer in the page.
ActionResolve(op, resp) ==
    LET reloads ==
            (IF op.att
             THEN SetToBag({[Op("adminList") EXCEPT !.arg = filters]})
             ELSE EmptyBag)
            (+) SetToBag({[Op("detailTimer") EXCEPT
                               !.sid = op.sid, !.att = op.att,
                               !.delay = DETAIL_RELOAD_MS]})
    IN  /\ modal' = [NoRecord(modal, "message") EXCEPT !.hide = TRUE]
        /\ IF ApiFetch(resp).threw
           THEN /\ pending' = Settle(op)
                /\ UNCHANGED <<msg, list>>
           ELSE /\ BagCardinality(Settle(op) (+) reloads) <= MaxPending
                /\ pending' = Settle(op) (+) reloads
                /\ msg' = IF op.att THEN "Loading..." ELSE msg
                /\ list' = IF op.att THEN [list EXCEPT !.last = filters]
                           ELSE list
        /\ UNCHANGED <<sessVars, mediaVars, closureVars, done, view,
                       mainIntact, form, sourceSel, sourceArea, preview,
                       ocrResult, videoReady, filters>>
        /\ UNCHANGED <<progress, fetched>>

\* the timer doAction set fires: renderAdminDetail(sessionId)
DetailTimerFire(op) ==
    /\ renderAdminDetail(op.sid, op.att, Settle(op))
    /\ UNCHANGED <<sessVars, mediaVars, domVars, closureVars, done, filters,
                   list>>
    /\ UNCHANGED <<progress, fetched>>

\* the hide timer showMessage armed on the modal body fires; it was armed no
\* earlier than any detail reload still scheduled, with a longer delay
HideBodyFire ==
    /\ modal.hide
    /\ Ops("detailTimer") = {}
    /\ modal' = [NoRecord(modal, "blank") EXCEPT !.hide = FALSE]
    /\ UNCHANGED <<sessVars, mediaVars, domVars, closureVars, pending, done,
                   filters, list>>
    /\ UNCHANGED <<progress, fetched>>

(***************************************************************************)
(* The browser signals beforeunload or pagehide: stopActiveStream().  The  *)
(* page lives on when the navigation is cancelled or when it is restored   *)
(* from the back/forward cache.                                            *)
(***************************************************************************)
PageHide ==
    /\ open' = stopActiveStream(Media).open
    /\ activeStream' = stopActiveStream(Media).active
    /\ UNCHANGED <<sessVars, domVars, closureVars, pending, done, adminVars, progress, fetched>>

(***************************************************************************)
(* The page is loaded again: the script starts over from localStorage, the *)
(* browser ends the old page's streams, requests and timers.               *)
(***************************************************************************)
Reload ==
    /\ sessionId' = storage
    /\ name' = NoText /\ mobile' = NoText /\ age' = 0
    /\ documentType' = Null /\ documentNumber' = NoText
    /\ lastOcrResponse' = Null
    /\ activeStream' = NoStream
    /\ open' = {}
    /\ pending' = EmptyBag
    /\ SetMain("Home")
    /\ modal' = ModalInit
    /\ filters' = NoFilter
    /\ fetched' = NoCall
    /\ done' = {}
    /\ UNCHANGED storage

(***************************************************************************)
(* Inputs the user types into the create-session form.                     *)
(***************************************************************************)
Ten == <<"9", "8", "7", "6", "5", "4", "3", "2", "1", "0">>

FormInputs ==
    {[name |-> <<"A">>, mobile |-> Ten, age |-> <<"2", "5">>],
     [name |-> <<"A">>, mobile |-> Ten, age |-> <<"1", "7">>]}

Next ==
    \/ showHome
    \/ renderAdminList
    \/ renderCreateSession
    \/ \E f \in FormInputs : TypeForm(f)
    \/ SubmitCreateSession
    \/ \E op \in Ops("create"), resp \in CreateResponses : CreateResolve(op, resp)
    \/ \E op \in Ops("create"), resp \in CreateResponses :
          CreateStoreFails(op, resp)
    \/ \E op \in Ops("createTimer") : CreateTimerFire(op)
    \/ \E d \in DocTypes : ClickDocButton(d)
    \/ \E op \in Ops("select") : \E resp \in SelectResponses(op.arg) :
          SelectResolve(op, resp)
    \/ \E s \in DocNumberInputs : SubmitDocNumber(s)
    \/ \E op \in Ops("enterDoc") : \E resp \in DocNumberResponses(op.docno) :
          EnterDocResolve(op, resp)
    \/ BackToSelect
    \/ PickFile
    \/ \E v \in {"file", "camera"} : SourceChange(v)
    \/ \E op \in Ops("acqUpload"), o \in AcqOutcomes : AcqUploadResolve(op, o)
    \/ CaptureDoc
    \/ \E op \in Ops("blobDoc") : BlobDocReady(op)
    \/ CloseCamera
    \/ CancelUpload
    \/ ClickUpload
    \/ \E op \in Ops("validate"), resp \in ValidateResponses :
          ValidateResolve(op, resp)
    \/ \E op \in Ops("retryTimer") : RetryTimerFire(op)
    \/ ProceedToSelfie
    \/ RetryUpload
    \/ \E op \in Ops("acqSelfie"), o \in AcqOutcomes : AcqSelfieResolve(op, o)
    \/ CaptureSelfie
    \/ \E op \in Ops("blobSelfie") : BlobSelfieReady(op)
    \/ ClickUploadSelfie
    \/ \E op \in Ops("selfie"), resp \in SelfieResponses : SelfieResolve(op, resp)
    \/ CancelSelfie
    \/ RefreshStatus
    \/ \E op \in Ops("status"), resp \in PlainResponses : StatusResolve(op, resp)
    \/ \E op \in Ops("adminList"), resp \in PlainResponses :
          AdminListResolve(op, resp)
    \/ PageHide
    \/ Reload

Spec == Init /\ [][Next]_vars

(***************************************************************************)
(* The moderation console alone.                                           *)
(***************************************************************************)
AdminNext ==
    \/ showHome
    \/ renderAdminList
    \/ \E op \in Ops("adminList"), resp \in PlainResponses :
          AdminListResolve(op, resp)
    \/ \E f \in FilterChoices : SetFilter(f)
    \/ ApplyFilters
    \/ ResetFilters
    \/ \E r \in RecordIds : OpenDetail(r)
    \/ \E op \in Ops("detail"), resp \in DetailResponses : DetailResolve(op, resp)
    \/ closeModal
    \/ \E verb \in {"approve", "reject"} : ClickAction(verb)
    \/ \E op \in Ops("action"), resp \in Http : ActionResolve(op, resp)
    \/ \E op \in Ops("detailTimer") : DetailTimerFire(op)
    \/ HideBodyFire
    \/ Reload

AdminSpec == Init /\ [][AdminNext]_vars

(***************************************************************************)
(* The wizard from Home to Status with a user who goes straight through    *)
(* it, waiting for each call to settle, and a server that accepts every    *)
(* call.  Handlers, continuations and timers are run by the event loop     *)
(* once they are due, the user and the server do their next step: weak     *)
(* fairness of the whole step relation.                                    *)
(***************************************************************************)
\* a valid name, mobile 9876543210, age 25
HappyForms ==
    {[name |-> n, mobile |-> Ten, age |-> <<"2", "5">>] :
        n \in {<<"A">>, <<"A", "b">>, <<"R", "a", "j">>}}

HappyDocNumbers == {<<"D", "1">>, <<"D", "2">>, <<"A", "1", "B">>}

\* a success status and an object body (declared as JSON or not)
Accepting(resp) == HttpSuccess(resp) /\ resp.kind = "obj"

Idle == pending = EmptyBag

HappyNext ==
    \/ Idle /\ view = "Home" /\ renderCreateSession
    \/ \E f \in HappyForms : form = BlankForm /\ TypeForm(f)
    \/ Idle /\ form # BlankForm /\ SubmitCreateSession
    \/ \E op \in Ops("create"), resp \in CreateResponses :
          /\ Accepting(resp)
          /\ resp.session_id = "S1"
          /\ CreateResolve(op, resp)
    \/ \E op \in Ops("createTimer") : CreateTimerFire(op)
    \/ Idle /\ ClickDocButton("PAN")
    \/ \E op \in Ops("select") : \E resp \in SelectResponses(op.arg) :
          Accepting(resp) /\ SelectResolve(op, resp)
    \/ \E s \in HappyDocNumbers : Idle /\ SubmitDocNumber(s)
    \/ \E op \in Ops("enterDoc") : \E resp \in DocNumberResponses(op.docno) :
          Accepting(resp) /\ EnterDocResolve(op, resp)
    \/ artifact = Null /\ PickFile
    \/ artifact # Null /\ ClickUpload
    \/ \E op \in Ops("validate"), resp \in ValidateResponses :
          /\ Accepting(resp)
          /\ resp.next_step = "SELFIE"
          /\ ValidateResolve(op, resp)
    \/ ProceedToSelfie
    \/ \E op \in Ops("acqSelfie") : AcqSelfieResolve(op, "granted")
    \/ Idle /\ videoReady /\ artifact = Null /\ CaptureSelfie
    \/ \E op \in Ops("blobSelfie") : BlobSelfieReady(op)
    \/ Idle /\ artifact # Null /\ ClickUploadSelfie
    \/ \E op \in Ops("selfie"), resp \in SelfieResponses :
          Accepting(resp) /\ SelfieResolve(op, resp)
    \/ \E op \in Ops("status"), resp \in PlainResponses :
          Accepting(resp) /\ StatusResolve(op, resp)

HappySpec == Init /\ [][HappyNext]_vars /\ WF_vars(HappyNext)

(***************************************************************************)
(* The first three steps of the wizard with a server that hands out two    *)
(* session ids: a second session can be created after the first.           *)
(***************************************************************************)
LaterSessionIds == {"S1", "S2"}

SessionCreateResponses ==
    UNION {{[net |-> h.net, ok |-> h.ok, ct |-> h.ct, kind |-> h.kind,
             session_id |-> sid, sessionId |-> Null, id |-> Null] :
               sid \in FieldsOf(h, LaterSessionIds \cup {Null}, Null)} :
              h \in Http}

SessionNext ==
    \/ showHome
    \/ renderCreateSession
    \/ \E f \in FormInputs : TypeForm(f)
    \/ SubmitCreateSession
    \/ \E op \in Ops("create"), resp \in SessionCreateResponses :
          CreateResolve(op, resp)
    \/ \E op \in Ops("createTimer") : CreateTimerFire(op)
    \/ \E d \in DocTypes : ClickDocButton(d)
    \/ \E op \in Ops("select") : \E resp \in SelectResponses(op.arg) :
          SelectResolve(op, resp)
    \/ \E t \in DocNumberInputs : SubmitDocNumber(t)
    \/ \E op \in Ops("enterDoc") : \E resp \in DocNumberResponses(op.docno) :
          EnterDocResolve(op, resp)
    \/ BackToSelect
    \/ Reload

SessionSpec == Init /\ [][SessionNext]_vars

(***************************************************************************)
(* apiFetch by itself, over the responses a server can give: the status,   *)
(* the declared content type, and the text of the body (nothing, text that *)
(* is not JSON, the JSON null, or a JSON object with or without its detail *)
(* and message fields).                                                    *)
(***************************************************************************)
ApiStatuses == {200, 201, 404, 500}

RawBodies ==
    {[kind |-> k, detail |-> Null, message |-> Null] :
        k \in {"empty", "text", "null"}}
      \cup {[kind |-> "obj", detail |-> d, message |-> m] :
               d \in {Null, "D"}, m \in {Null, "M"}}

\* fetch rejected, or a response
ApiResponses ==
    {NoCall.resp}
      \cup [net : {TRUE}, status : ApiStatuses, ct : {"json", "text"},
            raw : RawBodies]

\* res.ok
ResOk(status) == status \in 200..299

\* res.json() for a body declared as JSON; otherwise res.text(), then
\* JSON.parse of a non-empty text, the text itself when that throws
ParseBody(ct, raw) ==
    IF ct = "json"
    THEN [threw |-> raw.kind \in {"empty", "text"},
          body |-> IF raw.kind = "obj" THEN raw ELSE NullBody]
    ELSE [threw |-> FALSE,
          body |-> IF raw.kind \in {"obj", "text"} THEN raw ELSE NullBody]

\* (body && (body.detail || body.message)) ? ... : typeof body === 'string'
\* ? body : `HTTP ${res.status}`
ErrMsg(body, status) ==
    IF body.kind = "obj" /\ Or2(body.detail, body.message) # Null
    THEN [from |-> IF body.detail # Null THEN "detail" ELSE "message",
          status |-> 0]
    ELSE IF body.kind = "text" THEN [from |-> "text", status |-> 0]
    ELSE [from |-> "http", status |-> status]

\* what one call comes to: the body returned, or what was thrown
apiFetch(r) ==
    LET p == ParseBody(r.ct, r.raw)
    IN  IF ~r.net THEN [NoCall.result EXCEPT !.outcome = "rejected"]
        ELSE IF p.threw THEN [NoCall.result EXCEPT !.outcome = "syntaxError"]
        ELSE IF ~ResOk(r.status)
        THEN [outcome |-> "httpError", status |-> r.status, body |-> p.body,
              message |-> ErrMsg(p.body, r.status)]
        ELSE [NoCall.result EXCEPT !.outcome = "returned", !.body = p.body]

\* apiFetch is called: fetch(url, opts), once
ApiCall(r) ==
    /\ fetched.stage = "none"
    /\ fetched' = [NoCall EXCEPT !.stage = "sent", !.resp = r, !.requests = 1]
    /\ UNCHANGED <<sessVars, mediaVars, domVars, closureVars, pending, done,
                   adminVars, progress>>

\* the rest of apiFetch, once fetch has settled
ApiSettle ==
    /\ fetched.stage = "sent"
    /\ fetched' = [fetched EXCEPT !.stage = "settled",
                                  !.result = apiFetch(fetched.resp)]
    /\ UNCHANGED <<sessVars, mediaVars, domVars, closureVars, pending, done,
                   adminVars, progress>>

\* the caller has dealt with the outcome
ApiForget ==
    /\ fetched.stage = "settled"
    /\ fetched' = NoCall
    /\ UNCHANGED <<sessVars, mediaVars, domVars, closureVars, pending, done,
                   adminVars, progress>>

ApiNext ==
    \/ \E r \in ApiResponses : ApiCall(r)
    \/ ApiSettle
    \/ ApiForget

ApiSpec == Init /\ [][ApiNext]_vars

(***************************************************************************)
(* The upload step with its progress bar: the interval timer of the        *)
(* upload click handler advances the bar of the node on display by         *)
(* Math.random() * 12, here one of three amounts in [0, 12).               *)
(***************************************************************************)
ProgressSteps == {0, 7, 11}

\* progress = Math.min(100, ...): a bar that runs to completion by itself
ProgressTick_ToCompletion(inc) ==
    /\ progress.timer
    /\ progress' = [progress EXCEPT
           !.bar = IF @ + inc < 100 THEN @ + inc ELSE 100]
    /\ UNCHANGED <<sessVars, mediaVars, domVars, closureVars, pending, done,
                   adminVars, fetched>>

\* the interval callback: progress = Math.min(92, progress + random * 12)
ProgressTick(inc) ==
    /\ progress.timer
    /\ progress' = [progress EXCEPT
           !.bar = IF @ + inc < PROGRESS_CAP THEN @ + inc ELSE PROGRESS_CAP]
    /\ UNCHANGED <<sessVars, mediaVars, domVars, closureVars, pending, done,
                   adminVars, fetched>>

ProgressNext ==
    \/ Idle /\ view = "Home" /\ renderCreateSession
    \/ \E f \in HappyForms : form = BlankForm /\ TypeForm(f)
    \/ Idle /\ form # BlankForm /\ SubmitCreateSession
    \/ \E op \in Ops("create"), resp \in CreateResponses :
          /\ Accepting(resp)
          /\ resp.session_id = "S1"
          /\ CreateResolve(op, resp)
    \/ \E op \in Ops("createTimer") : CreateTimerFire(op)
    \/ Idle /\ ClickDocButton("PAN")
    \/ \E op \in Ops("select") : \E resp \in SelectResponses(op.arg) :
          Accepting(resp) /\ SelectResolve(op, resp)
    \/ \E s \in HappyDocNumbers : Idle /\ SubmitDocNumber(s)
    \/ \E op \in Ops("enterDoc") : \E resp \in DocNumberResponses(op.docno) :
          Accepting(resp) /\ EnterDocResolve(op, resp)
    \/ artifact = Null /\ PickFile
    \/ ClickUpload
    \/ \E inc \in ProgressSteps : ProgressTick(inc)
    \/ \E op \in Ops("validate"), resp \in ValidateResponses :
          ValidateResolve(op, resp)
    \/ \E op \in Ops("retryTimer") : RetryTimerFire(op)
    \/ RetryUpload
    \/ view \in {"UploadDocument", "OcrProgress"} /\ showHome

ProgressSpec == Init /\ [][ProgressNext]_vars

(***************************************************************************)
(* The create-session form alone, over every kind of input text.           *)
(***************************************************************************)
NameInputs == {<<>>, <<" ">>, <<"A">>, <<" ", "A", " ">>}

MobileInputs ==
    {<<>>, Ten, SubSeq(Ten, 1, 9), Ten \o <<"1">>, <<" ">> \o Ten \o <<" ">>,
     [Ten EXCEPT ![5] = "x"], <<"+">> \o SubSeq(Ten, 1, 9)}

AgeInputs ==
    {<<>>, <<"a", "b", "c">>, <<"1", "7">>, <<"1", "8">>, <<"2", "5">>,
     <<"1", "8", ".", "5">>, <<"1", "7", ".", "9">>, <<"-", "5">>,
     <<" ", "2", "0">>, <<"2", "5", "a", "b", "c">>, <<"1", "2", "0">>}

AllForms ==
    {[name |-> n, mobile |-> m, age |-> a] :
        n \in NameInputs, m \in MobileInputs, a \in AgeInputs}

ValidationNext ==
    \/ renderCreateSession
    \/ \E f \in AllForms : TypeForm(f)
    \/ SubmitCreateSession
    \/ showHome

ValidationSpec == Init /\ [][ValidationNext]_vars

(***************************************************************************)
(* Properties.                                                             *)
(***************************************************************************)
RetryTimer ==
    [Op("retryTimer") EXCEPT !.att = FALSE, !.delay = RETRY_DELAY_MS]

\* the retry timers that are set
RetryCount(pend) == CopiesIn(RetryTimer, pend)

\* the server accepted the document: success status and directive SELFIE
Accepted(resp) == HttpSuccess(resp) /\ SaysSelfie(resp)

\* C1: in every reachable state at most one media stream is open.
C1_AtMostOneStreamOpen == Cardinality(open) <= 1

\* C2 as stated: every accepted validate-document response leaves the
\* 'Proceed to Selfie' action on display and sets no retry timer.
C2_AcceptedAlwaysShowsProceed ==
    [][\A op \in Ops("validate") : \A resp \in ValidateResponses :
          (Accepted(resp) /\ ValidateResolve(op, resp))
              => /\ view' = "OcrProgress"
                 /\ ocrResult' = "Proceed"
                 /\ RetryCount(pending') = RetryCount(pending)]_vars

\* C2 amended: an accepted validate-document response never sets a retry
\* timer, and it puts the 'Proceed to Selfie' action on display whenever the
\* OCR progress view of that upload is still the rendered view.
C2_AcceptedOffersProceed ==
    [][\A op \in Ops("validate") : \A resp \in ValidateResponses :
          (Accepted(resp) /\ ValidateResolve(op, resp))
              => /\ RetryCount(pending') = RetryCount(pending)
                 /\ \A t \in BagToSet(pending') : t.kind # "retryTimer"
                        => t \in BagToSet(pending)
                 /\ op.att => (view' = "OcrProgress" /\ ocrResult' = "Proceed")
      ]_vars

C2_Witness ==
    /\ view = "OcrProgress"
    /\ ocrResult = "Proceed"
    /\ "validate" \in done
    /\ RetryCount(pending) = 0

\* C3: every other outcome of validate-document (a failed request, a
\* non-success status, a success status whose directive is not SELFIE or whose
\* body cannot be read) sets one timer of the fixed delay, offers no
\* 'Proceed to Selfie' and leaves the view; and a retry timer that fires
\* re-displays the upload step.
C3_OtherOutcomesRetry ==
    [][/\ \A op \in Ops("validate") : \A resp \in ValidateResponses :
             (~Accepted(resp) /\ ValidateResolve(op, resp))
                 => /\ RetryCount(pending') = RetryCount(pending) + 1
                    /\ view' = view
                    /\ view' # "SelfieUpload" \/ view = "SelfieUpload"
                    /\ op.att => ocrResult' # "Proceed"
                    /\ ocrResult' = "Proceed" => ocrResult = "Proceed"
       /\ \A rt \in Ops("retryTimer") :
             RetryTimerFire(rt)
                 => /\ rt.delay = RETRY_DELAY_MS
                    /\ view' = "UploadDocument"]_vars

C3_Witness ==
    /\ view = "OcrProgress"
    /\ ocrResult = "OCR did not match"
    /\ RetryCount(pending) = 1
    /\ "validate" \notin done

AllSteps == {"create", "select", "enterDoc", "validate", "selfie"}

\* C4: a wizard view is on display only after the call of the step before it
\* has returned a success status since the page was loaded: select-document
\* after create-session, enter-number after select-document, upload after
\* enter-doc-number, selfie after an accepted validate-document, status after
\* selfie.
C4_NoStepSkipped ==
    /\ view = "SelectDocument" => "create" \in done
    /\ view = "EnterDocNumber" => "select" \in done
    /\ view \in {"UploadDocument", "OcrProgress"} => "enterDoc" \in done
    /\ view = "SelfieUpload" => "validate" \in done
    /\ view = "Status" => "selfie" \in done

C4_Witness == view = "Status" /\ done = AllSteps

\* what C5 says a failed call leaves as it was
FailureLeaves ==
    /\ view' = view
    /\ mainIntact' = mainIntact
    /\ UNCHANGED <<sessionId, storage, documentType, documentNumber>>

\* C5: when create-session, select-document, enter-doc-number or the selfie
\* upload comes back failed to the view that sent it, that view stays rendered
\* as it was, its failure message is shown, and the session id, the stored id,
\* the document type and the document number keep their values.
C5_FailureKeepsView ==
    [][/\ \A op \in Ops("create") : \A resp \in CreateResponses :
             (~HttpSuccess(resp) /\ op.att /\ CreateResolve(op, resp))
                 => (FailureLeaves /\ msg' = "Create session failed")
       /\ \A op \in Ops("select") : \A resp \in SelectResponses(op.arg) :
             (~HttpSuccess(resp) /\ op.att /\ SelectResolve(op, resp))
                 => (FailureLeaves /\ msg' = "Select document failed")
       /\ \A op \in Ops("enterDoc") : \A resp \in DocNumberResponses(op.docno) :
             (~HttpSuccess(resp) /\ op.att /\ EnterDocResolve(op, resp))
                 => (FailureLeaves /\ msg' = "Saving document number failed")
       /\ \A op \in Ops("selfie") : \A resp \in SelfieResponses :
             (~HttpSuccess(resp) /\ op.att /\ SelfieResolve(op, resp))
                 => (FailureLeaves /\ msg' = "Selfie upload failed")]_vars

\* s is a decimal integer: an optional sign and digits, nothing else
IsIntegerText(s) ==
    LET t == Trim(s)
        u == IF t # <<>> /\ Head(t) \in {"-", "+"} THEN Tail(t) ELSE t
    IN  u # <<>> /\ \A i \in 1..Len(u) : u[i] \in Digits

\* the integer such a text denotes
IntegerOf(s) ==
    LET t == Trim(s)
        u == IF Head(t) \in {"-", "+"} THEN Tail(t) ELSE t
    IN  IF Head(t) = "-" THEN 0 - DecimalValue(u) ELSE DecimalValue(u)

\* the three conditions C6 names
FormValid(f) ==
    /\ Trim(f.name) # <<>>
    /\ Len(Trim(f.mobile)) = 10
    /\ \A i \in 1..Len(Trim(f.mobile)) : Trim(f.mobile)[i] \in Digits
    /\ IsIntegerText(f.age)
    /\ IntegerOf(f.age) >= 18

\* C6: submitting the create form sends the request if and only if the trimmed
\* name is non-empty, the trimmed mobile is exactly ten digits and the age
\* input is a valid integer of at least 18.
C6_RequestIffValid ==
    [][SubmitCreateSession
          => ((pending' # pending /\ msg' = "Creating session...")
                 <=> FormValid(form))]_vars

\* C7: no validate-document or selfie request exists without a file and a
\* session id; an upload click with no artifact or no session id shows the
\* message of the failed check and leaves the view and the requests alone.
C7_UploadNeedsArtifactAndSession ==
    [][/\ \A op \in BagToSet(pending') :
             op.kind \in {"validate", "selfie"}
                 => (op.file # Null /\ op.sid # Null)
       /\ (ClickUpload /\ (artifact = Null \/ sessionId = Null))
             => /\ msg' \in {"Please choose or capture a file first.",
                             "Session missing - start again."}
                /\ view' = view
                /\ pending' = pending
       /\ (ClickUploadSelfie /\ (artifact = Null \/ sessionId = Null))
             => /\ msg' \in {"Capture a selfie first.", "Session missing."}
                /\ view' = view
                /\ pending' = pending]_vars

C7_Witness ==
    /\ view = "UploadDocument"
    /\ artifact = Null
    /\ msg = "Please choose or capture a file first."
    /\ Ops("validate") = {}

\* C8: whenever another view comes on display, the OCR progress view of an
\* upload click included, no media stream is left open.
C8_EveryEntryReleases == [][view' # view => open' = {}]_vars

\* C9: in the upload view no stream is open while the file source is the
\* selected one, and a camera stream is only acquired when none is open.
C9_SourceSwitchReleases ==
    [][/\ (view' = "UploadDocument" /\ sourceSel' = "file") => open' = {}
       /\ \A op \in Ops("acqUpload") : \A o \in AcqOutcomes \ {"denied"} :
             AcqUploadResolve(op, o) => open = {}]_vars

PastCreation ==
    {"SelectDocument", "EnterDocNumber", "UploadDocument", "OcrProgress",
     "SelfieUpload", "Status"}

\* C10: while a view past session creation is on display the session id is
\* set, and every session-scoped request was sent with a session id.
C10_SessionIdPresent ==
    /\ view \in PastCreation => sessionId # Null
    /\ \A op \in BagToSet(pending) :
          op.kind \in {"select", "enterDoc", "validate", "selfie", "status"}
              => op.sid # Null

C10_Witness ==
    /\ view = "Status"
    /\ sessionId # Null
    /\ \E op \in Ops("status") : op.att /\ op.sid = sessionId

\* C11: the in-memory session id always equals the stored one (both absent
\* or the same id), on every step that leaves a state, and the stored id is
\* rewritten only by a create-session continuation whose response names a
\* session.
C11_MemoryMatchesStorage ==
    [][/\ sessionId = storage
       /\ sessionId' = storage'
       /\ storage' # storage
             => \E op \in Ops("create") : \E resp \in CreateResponses :
                    CreateOk(resp) /\ CreateResolve(op, resp)]_vars

\* C12: the action bar a loaded record is shown with depends on its status
\* alone: APPROVED gives the badge and Reject, REJECTED gives Approve only,
\* every other status gives Approve and Reject; and a click on a shown
\* button sends that verb for the id the displayed record was requested by.
C12_ActionSetByStatus ==
    [][/\ \A op \in Ops("detail") : \A resp \in DetailResponses :
             (modal'.body = "record" /\ DetailResolve(op, resp))
                 => /\ modal'.status =
                          (IF resp.kind = "obj" THEN resp.status ELSE Null)
                    /\ modal'.sid = op.sid
                    /\ modal'.actions =
                          CASE modal'.status = "APPROVED" -> {"badge", "reject"}
                            [] modal'.status = "REJECTED" -> {"approve"}
                            [] OTHER -> {"approve", "reject"}
       /\ \A verb \in {"approve", "reject", "badge"} :
             (pending' # pending /\ ClickAction(verb))
                 => /\ verb \in modal.actions \cap {"approve", "reject"}
                    /\ \E op \in BagToSet(pending') :
                          /\ op.kind = "action"
                          /\ op.arg = verb
                          /\ op.sid = modal.sid
                          /\ CopiesIn(op, pending') = CopiesIn(op, pending) + 1]_vars

C12_Witness ==
    /\ modal.shown
    /\ modal.body = "record"
    /\ modal.status = "APPROVED"
    /\ modal.actions = {"badge", "reject"}
    /\ \E op \in Ops("action") : op.arg = "reject" /\ op.sid = modal.sid

\* C13: when an approve or reject call succeeds, the list is requested again
\* with what the filter inputs hold and a timer of the fixed delay is set for
\* the same session id; when the timer fires the detail of that id is
\* requested; and the record and action bar a detail load displays are not
\* taken away by the timer of an earlier message.
C13_ActionReloadsListAndDetail ==
    [][/\ \A op \in Ops("action") : \A resp \in Http :
             (~ApiFetch(resp).threw /\ ActionResolve(op, resp))
                 => /\ op.att
                          => \E l \in BagToSet(pending') :
                                /\ l.kind = "adminList"
                                /\ l.arg = filters
                                /\ CopiesIn(l, pending')
                                      = CopiesIn(l, pending) + 1
                    /\ \E t \in BagToSet(pending') :
                          /\ t.kind = "detailTimer"
                          /\ t.sid = op.sid
                          /\ t.delay = DETAIL_RELOAD_MS
       /\ \A t \in Ops("detailTimer") :
             DetailTimerFire(t)
                 => \E d \in BagToSet(pending') :
                       d.kind = "detail" /\ d.sid = t.sid
       /\ (HideBodyFire /\ modal.body = "record")
             => (modal'.body = "record" /\ modal'.actions = modal.actions)]_vars

\* C14: the selfie view has no file source and a selfie request always
\* carries a frame captured from the camera; and whenever the selfie call
\* returns a success status, whatever its body, the camera of the view that
\* sent it is released and the Status view is rendered.
C14_SelfieFrameThenStatus ==
    [][/\ view' = "SelfieUpload"
             => (sourceSel' = "none" /\ artifact' \in {Null, "frame"})
       /\ \A op \in BagToSet(pending') :
             op.kind = "selfie" => op.file = "frame"
       /\ \A resp \in SelfieResponses :
             HttpSuccess(resp)
                 => \A op \in Ops("selfie") :
                       SelfieResolve(op, resp)
                           => /\ view' = "Status"
                              /\ activeStream' = NoStream
                              /\ localStream' = NoStream
                              /\ (IF op.att THEN localStream ELSE op.ls)
                                     \notin open']_vars

C14_Witness ==
    /\ view = "Status"
    /\ "selfie" \in done
    /\ activeStream = NoStream
    /\ \E op \in Ops("status") : op.att

\* C15: going back (back to select document, cancel upload, cancel selfie,
\* cancel to home) leaves sessionId, the stored session key, name, mobile,
\* age, documentType and documentNumber as they were; it renders the view
\* gone back to and leaves no active stream.
C15_BackKeepsSessionFields ==
    [][/\ (BackToSelect \/ CancelUpload \/ CancelSelfie \/ showHome)
             => /\ UNCHANGED <<sessionId, storage, name, mobile, age,
                               documentType, documentNumber>>
                /\ activeStream' = NoStream
       /\ BackToSelect => view' = "SelectDocument"
       /\ CancelUpload => view' = "Home"
       /\ CancelSelfie => view' = "UploadDocument"
       /\ showHome => view' = "Home"]_vars

\* Home with the fields still set: only going back leads there
C15_Witness ==
    /\ view = "Home"
    /\ sessionId = "S1" /\ storage = "S1"
    /\ name # NoText /\ mobile # NoText /\ age # 0
    /\ documentType \in DocTypes
    /\ documentNumber # NoText
    /\ pending = EmptyBag

\* C16: when the browser signals beforeunload or pagehide, after the handler
\* has run no media stream is open.
C16_PageHideReleasesAll == [][PageHide => open' = {}]_vars

\* the requests the current instance of a view has sent and not yet seen
\* settle
InFlight(k) ==
    LET own == {op \in BagToSet(pending) : op.kind = k /\ op.att}
    IN  BagCardinality([op \in own |-> pending[op]])

\* C17: of each of the create, select, document-number, upload and selfie
\* requests, the view on display has at most one in flight.
C17_OneRequestPerView ==
    \A k \in {"create", "select", "enterDoc", "validate", "selfie"} :
        InFlight(k) <= 1

\* C18: when the view a request was sent from has been navigated away from,
\* the continuation of its response leaves the view on display in place.
C18_LateResponseKeepsView ==
    [][/\ \A op \in Ops("create") : \A resp \in CreateResponses :
             (~op.att /\ CreateResolve(op, resp)) => view' = view
       /\ \A op \in Ops("select") : \A resp \in SelectResponses(op.arg) :
             (~op.att /\ SelectResolve(op, resp)) => view' = view
       /\ \A op \in Ops("enterDoc") : \A resp \in DocNumberResponses(op.docno) :
             (~op.att /\ EnterDocResolve(op, resp)) => view' = view
       /\ \A op \in Ops("validate") : \A resp \in ValidateResponses :
             (~op.att /\ ValidateResolve(op, resp)) => view' = view
       /\ \A op \in Ops("selfie") : \A resp \in SelfieResponses :
             (~op.att /\ SelfieResolve(op, resp)) => view' = view]_vars

\* C19: with an accepting server that names session S1 and answers the
\* upload with next_step SELFIE, the user who creates a session, selects
\* PAN, enters a document number, uploads a file, proceeds and uploads a
\* captured selfie eventually has the Status view on display with the status
\* of session S1 requested.
C19_HappyPathReachesStatus ==
    <>(/\ view = "Status"
       /\ \E op \in Ops("status") : op.att /\ op.sid = "S1")

C19_Witness ==
    /\ view = "Status"
    /\ msg = "Status loaded"
    /\ sessionId = "S1" /\ storage = "S1"
    /\ mobile = Ten /\ age = 25
    /\ documentType = "PAN"
    /\ done = AllSteps
    /\ open = {}

C26_OcrResponseNotRetained ==
    view \in {"SelfieUpload", "Status", "Home", "CreateSession"}
        => lastOcrResponse = Null

\* C27: every open media stream is the one state.activeStream refers to.
C27_OpenStreamsTracked == \A s \in open : activeStream = s

\* C28: in the upload view, while the preview reads 'No file selected' after
\* a reset, no artifact is held, so that a click on Upload is blocked.
C28_ResetPreviewMeansNoArtifact ==
    (view = "UploadDocument" /\ preview = "reset")
        => (artifact = Null /\ UploadBlocked # "")

\* C29: an attempt to start the camera that ends in a reported 'Camera
\* error' (the prompt was refused, or the stream was acquired and playback
\* did not start) leaves open no stream that was not open before it.
C29_CameraErrorLeavesNoStream ==
    [][\A o \in {"denied", "playFailed"} :
          /\ \A op \in Ops("acqUpload") :
                (op.att /\ AcqUploadResolve(op, o) /\ msg' = "Camera error")
                    => open' \subseteq open
          /\ \A op \in Ops("acqSelfie") :
                (op.att /\ AcqSelfieResolve(op, o) /\ msg' = "Camera error")
                    => open' \subseteq open]_vars

\* C30: documentType and documentNumber belong to the current session: a
\* create-session continuation that installs another session id leaves both
\* unset, and the continuation of a select-document or enter-doc-number
\* request that was sent under another session id than the current one
\* writes neither.
C30_FieldsOfCurrentSession ==
    [][/\ \A op \in Ops("create") : \A resp \in SessionCreateResponses :
             (CreateResolve(op, resp) /\ sessionId' # sessionId)
                 => (documentType' = Null /\ documentNumber' = NoText)
       /\ \A op \in Ops("select") : \A resp \in SelectResponses(op.arg) :
             (op.sid # sessionId /\ SelectResolve(op, resp))
                 => documentType' = documentType
       /\ \A op \in Ops("enterDoc") :
             \A resp \in DocNumberResponses(op.docno) :
                (op.sid # sessionId /\ EnterDocResolve(op, resp))
                    => documentNumber' = documentNumber]_vars

\* C25: a delayed navigation timer whose owner is gone does nothing: the
\* 300 ms advance of a create-session view that has been left, and the
\* 1.2 s retry of an OCR progress view that has been left, do not replace
\* the view on display; the 0.4 s detail reload does not open a modal that
\* has been dismissed.
C25_TimersDieWithOwner ==
    [][/\ \A op \in Ops("createTimer") :
             (view # "CreateSession" /\ CreateTimerFire(op)) => view' = view
       /\ \A op \in Ops("retryTimer") :
             (view # "OcrProgress" /\ RetryTimerFire(op)) => view' = view
       /\ \A op \in Ops("detailTimer") :
             (~modal.shown /\ DetailTimerFire(op)) => ~modal'.shown]_vars

\* the shared part of what a release leaves
Shared(m) == [open |-> m.open, active |-> m.active]

\* C22: each release operation, called where its view can call it, leaves
\* after a second call what it left after the first, and changes nothing
\* when its caller holds no handle: state.activeStream and the open streams
\* stay as they are.
C22_ReleaseIdempotentAndSafe ==
    /\ stopActiveStream(stopActiveStream(Media)) = stopActiveStream(Media)
    /\ activeStream = NoStream => stopActiveStream(Media) = Media
    /\ view = "UploadDocument"
          => LET once == stopLocalCamera(Media, localStream)
             IN  /\ stopLocalCamera(Shared(once), once.local) = once
                 /\ localStream = NoStream => Shared(once) = Media
    /\ view = "SelfieUpload"
          => LET once == stopCamera(Media, localStream)
             IN  /\ stopCamera(Shared(once), once.local) = once
                 /\ localStream = NoStream => Shared(once) = Media

\* the message the error of a non-success status is to carry: the body's
\* detail, else its message, else the body when it is plain text, else
\* 'HTTP <status>'
ExpectedMessage(r) ==
    IF r.raw.kind = "obj" /\ r.raw.detail # Null
    THEN [from |-> "detail", status |-> 0]
    ELSE IF r.raw.kind = "obj" /\ r.raw.message # Null
    THEN [from |-> "message", status |-> 0]
    ELSE IF r.raw.kind = "text" THEN [from |-> "text", status |-> 0]
    ELSE [from |-> "http", status |-> r.status]

\* the body as the caller is to see it: the object, the text, or null
ExpectedBody(r) == IF r.raw.kind \in {"obj", "text"} THEN r.raw ELSE NullBody

\* C21: a call of apiFetch that got a response has sent one request; for a
\* success status it returned the parsed body; for any other status it threw
\* an error that carries the status and the parsed body and whose message is
\* the body's detail, else its message, else the text body, else
\* 'HTTP <status>'.
C21_ApiFetchContract ==
    (fetched.stage = "settled" /\ fetched.resp.net)
        => LET r == fetched.resp
               out == fetched.result
           IN  /\ fetched.requests = 1
               /\ ResOk(r.status)
                     => (out.outcome = "returned" /\ out.body = ExpectedBody(r))
               /\ ~ResOk(r.status)
                     => /\ out.outcome = "httpError"
                        /\ out.status = r.status
                        /\ out.body = ExpectedBody(r)
                        /\ out.message = ExpectedMessage(r)

\* the validate-document call of the progress node on display has not been
\* answered
Outstanding(v, pend) ==
    /\ v = "OcrProgress"
    /\ \E op \in DOMAIN pend : op.kind = "validate" /\ op.att

\* C23: while the validate-document call of the node on display is
\* outstanding the bar stands at or below 92% and no step lowers it; the step
\* that answers the call, with a response or a failure, puts the bar at 100%
\* and stops the timer; from then on no step changes the bar of that node.
C23_ProgressRisesThenStaysComplete ==
    [][/\ Outstanding(view, pending)
            => /\ progress.bar <= PROGRESS_CAP
               /\ view' = "OcrProgress" => progress'.bar >= progress.bar
               /\ (view' = "OcrProgress" /\ ~Outstanding(view', pending'))
                     => progress' = [bar |-> 100, timer |-> FALSE]
       /\ (view = "OcrProgress" /\ ~Outstanding(view, pending))
            => /\ progress = [bar |-> 100, timer |-> FALSE]
               /\ view' = "OcrProgress" => progress' = progress
      ]_vars

\* a failed validation has been answered after the bar had come to its cap
C23_Witness ==
    /\ view = "OcrProgress"
    /\ progress = [bar |-> 100, timer |-> FALSE]
    /\ ocrResult # "Proceed"

\* C24: the dismissal listeners that are registered are those of the modal on
\* display: no set of three while the modal is closed, one set of three
\* while it is open.
C24_DismissalListenersNeverLeak ==
    modal.listeners = IF modal.shown THEN 1 ELSE 0

\* C31: once every list load of the admin list on display has settled, the
\* table, empty-state or error it shows is the outcome of the load that was
\* issued last.
C31_ListShowsLatestLoad ==
    (view = "Admin" /\ InFlight("adminList") = 0) => list.shown = list.last

====
